---- MODULE Spec2Model ----
(***************************************************************************)
(* Model of the connection managers (the two useWebSocket hooks of         *)
(* src/src/hooks/useWebSocket.ts) and of the agent-activity reducer        *)
(* (useAgentActivities.ts with agentEvents.ts) of agent-viz-v2.            *)
(*                                                                         *)
(* A hook instance is one record: its refs (wsRef, reconnectAttemptsRef,   *)
(* ...), its React state (status, error), the browser objects it has       *)
(* created (sockets with their readyState, pending timers) and the console *)
(* lines its last handler printed.  Every handler of the source is an      *)
(* operator from hook record to hook record; an action applies one         *)
(* handler, as the single-threaded event loop does.                        *)
(***************************************************************************)
EXTENDS Integers, Sequences, FiniteSets, TLC

VARIABLES
    vh,        \* the validated hook (connect/disconnect/send/lastMessage)
    vlast,     \* history: the last operation run on the validated hook
    vhist,     \* history: facts about the run of the validated hook
    eh,        \* the event-log hook (events/reconnect/send/clearEvents)
    arrivals,  \* history: the events appended since the log was last emptied
    elast,     \* history: the last operation run on the event-log hook
    ehist,     \* history: facts about the run of the event-log hook
    activities,\* the reducer's store: agentId -> AgentActivity
    heap,      \* the TokenUsage objects the activities refer to
    folds,     \* events handed to the reducer so far
    rlast,     \* history: the reducer's last operation and what it is compared with
    probe,     \* the last call of a validator: its input and its verdict
    app        \* the dashboard App: what its message effect saw and folded

vvars == <<vh, vlast, vhist>>
evars == <<eh, arrivals, elast, ehist>>
rvars == <<activities, heap, folds, rlast>>
gvars == <<probe>>
avars == <<app>>
vars == <<vvars, evars, rvars, gvars, avars>>

(***************************************************************************)
(* Bounds of the model.                                                    *)
(***************************************************************************)
MaxSockets == 4      \* sockets the validated hook may create
MaxSocketsE == 3     \* sockets the event-log hook may create
MaxTimers == 2       \* timers the event-log hook may have pending
MaxFrames == 3       \* frames the event log is followed for after it was emptied
maxEvents == 2       \* the maxEvents option the event-log hook runs with
MaxFolds == 3        \* events handed to the reducer in one run
MaxSocketsS == 2     \* sockets a hook may create in a run with send() and frames
MaxEnvelopes == 3    \* agent_event envelopes the App receives in one run
AttemptCap == 6      \* reconnect timers stop firing at this attempt count

(***************************************************************************)
(* Program constants.                                                      *)
(***************************************************************************)
initialReconnectDelay == 1000
maxReconnectDelay == 30000
ReconnectPause == 100
DEFAULT_RECONNECT_INTERVAL == 1000
DEFAULT_MAX_RECONNECT_INTERVAL == 30000
DEFAULT_RECONNECT_DECAY == 2
\* DEFAULT_MAX_RECONNECT_ATTEMPTS = Infinity: a number no counter reaches.
Infinity == 1000000
\* The finite maxReconnectAttempts option the model also runs with.
FiniteMaxAttempts == 1

Null == 0            \* a ref holding null

RECURSIVE Pow(_, _)
Pow(b, n) == IF n = 0 THEN 1 ELSE b * Pow(b, n - 1)

Min(a, b) == IF a < b THEN a ELSE b

\* typeof of a value, given what the value is.
TypeOf(valueOf) == IF valueOf \in {"object", "array", "null"} THEN "object" ELSE valueOf

(***************************************************************************)
(* The browser's WebSocket.close(): CONNECTING and OPEN sockets start      *)
(* closing; the close event arrives later, as a task of its own.           *)
(***************************************************************************)
WsClose(rs) == IF rs \in {"CONNECTING", "OPEN"} THEN "CLOSING" ELSE rs

LiveStates == {"CONNECTING", "OPEN"}

\* setTimeout's handle: an id no pending timer has.
FreshTimerId(timers) ==
    CHOOSE i \in 1..(Cardinality(timers) + 1) :
        /\ \A t \in timers : t.id # i
        /\ \A j \in 1..(i - 1) : \E t \in timers : t.id = j

(***************************************************************************)
(* The validated hook, src/src/hooks/useWebSocket.ts lines 346-511.        *)
(***************************************************************************)
\* One console line: the message and the delay it prints (0 when it prints none).
Log(msg, delay) == [msg |-> msg, delay |-> delay]

\* A decoded frame: what the value is, and typeof / value of its type and
\* payload fields ("undefined" when it has none).
Message(valueOf, typeOf, type, payloadOf) ==
    [valueOf |-> valueOf, typeOf |-> typeOf, type |-> type, payloadOf |-> payloadOf]

\* A frame as it arrives: its text, whether JSON.parse accepts the text, and
\* the value it decodes to.
Frame(text, isJson, data) == [text |-> text, isJson |-> isJson, data |-> data]

\* JSON.stringify of an object {type: t}.
JsonStringify(obj) == "{\"type\":\"" \o obj.type \o "\"}"

\* typeof data === 'string' ? data : JSON.stringify(data)
Serialize(data) == IF data.typeOf = "string" THEN data.value ELSE JsonStringify(data.value)

validMessageTypes == {"agent_event", "agent_activity", "heartbeat", "error"}

\* Mutant: the payload === null test is lost (typeof null is 'object').
isValidMessage_nullPayload(data) ==
    /\ ~(TypeOf(data.valueOf) # "object" \/ data.valueOf = "null")
    /\ ~(data.typeOf # "string")
    /\ ~(TypeOf(data.payloadOf) # "object")
    /\ data.type \in validMessageTypes

isValidMessage(data) ==
    /\ ~(TypeOf(data.valueOf) # "object" \/ data.valueOf = "null")
    /\ ~(data.typeOf # "string")
    /\ ~(TypeOf(data.payloadOf) # "object" \/ data.payloadOf = "null")
    /\ data.type \in validMessageTypes

VHookInit(urlValid, maxAttempts) ==
    [ socks                 |-> << >>,   \* readyState of every socket created
      established           |-> {},      \* sockets whose connection was established
      timers                |-> {},      \* pending setTimeout timers
      wsRef                 |-> Null,
      reconnectAttemptsRef  |-> 0,
      reconnectTimerRef     |-> Null,
      isManualDisconnectRef |-> FALSE,
      status                |-> "disconnected",
      error                 |-> "null",
      lastMessage           |-> << >>,   \* null, or <<the message>>
      mounted               |-> FALSE,
      unmounted             |-> FALSE,   \* the effect's cleanup has run
      console               |-> << >>,   \* lines printed by the running task
      sent                  |-> << >>,   \* frames transmitted by the running task
      urlValid              |-> urlValid,
      maxReconnectAttempts  |-> maxAttempts ]

clearReconnectTimer(h) ==
    IF h.reconnectTimerRef # Null
    THEN [h EXCEPT !.timers = {t \in @ : t.id # h.reconnectTimerRef},
                   !.reconnectTimerRef = Null]
    ELSE h

ReconnectDelay(attempt, interval, decay, maxInterval) ==
    Min(interval * Pow(decay, attempt), maxInterval)

getReconnectDelay(h) ==
    ReconnectDelay(h.reconnectAttemptsRef, DEFAULT_RECONNECT_INTERVAL,
                   DEFAULT_RECONNECT_DECAY, DEFAULT_MAX_RECONNECT_INTERVAL)

scheduleReconnect(h) ==
    IF h.isManualDisconnectRef
    THEN h
    ELSE IF h.reconnectAttemptsRef >= h.maxReconnectAttempts
    THEN [h EXCEPT !.console = Append(@, Log("Max reconnection attempts reached", 0)),
                   !.error = "Max reconnection attempts reached",
                   !.status = "disconnected"]
    ELSE LET id == FreshTimerId(h.timers)
             delay == getReconnectDelay(h)
         IN [h EXCEPT !.console = Append(@, Log("Reconnecting in", delay)),
                      !.timers = @ \cup {[id |-> id, delay |-> delay]},
                      !.reconnectTimerRef = id]

connectInternal(h) ==
    IF h.wsRef # Null /\ h.socks[h.wsRef] = "OPEN"
    THEN h
    ELSE LET h1 == IF h.wsRef # Null
                   THEN [h EXCEPT !.socks[h.wsRef] = WsClose(@), !.wsRef = Null]
                   ELSE h
             h2 == [h1 EXCEPT !.status = "connecting", !.error = "null"]
         IN IF h2.urlValid
            THEN [h2 EXCEPT !.socks = Append(@, "CONNECTING"),
                            !.wsRef = Len(h2.socks) + 1]
            ELSE \* new WebSocket(url) throws: the catch block
                 scheduleReconnect([h2 EXCEPT !.console = Append(@, Log("Failed to create WebSocket", 0)),
                                              !.error = "Failed to create WebSocket",
                                              !.status = "disconnected"])

onopen(h) ==
    [h EXCEPT !.console = Append(@, Log("Connected", 0)), !.status = "connected", !.error = "null", !.reconnectAttemptsRef = 0]

onmessage(h, frame) ==
    IF ~frame.isJson
    THEN \* JSON.parse throws: the catch block
         [h EXCEPT !.console = Append(@, Log("Failed to parse message", 0))]
    ELSE IF ~isValidMessage(frame.data)
    THEN [h EXCEPT !.console = Append(@, Log("Invalid message received", 0))]
    ELSE [h EXCEPT !.lastMessage = <<frame.data>>]

onerror(h) == [h EXCEPT !.error = "WebSocket connection error"]

onclose(h) ==
    LET h1 == [h EXCEPT !.console = Append(@, Log("Disconnected", 0)),
                        !.status = "disconnected", !.wsRef = Null]
    IN IF ~h1.isManualDisconnectRef THEN scheduleReconnect(h1) ELSE h1

\* The callback scheduleReconnect hands to setTimeout.
reconnectTimerCallback(h) ==
    connectInternal([h EXCEPT !.reconnectAttemptsRef = @ + 1])

connect(h) ==
    connectInternal(clearReconnectTimer(
        [h EXCEPT !.isManualDisconnectRef = FALSE, !.reconnectAttemptsRef = 0]))

disconnect(h) ==
    LET h1 == clearReconnectTimer([h EXCEPT !.isManualDisconnectRef = TRUE])
        h2 == IF h1.wsRef # Null
              THEN [h1 EXCEPT !.socks[h1.wsRef] = WsClose(@), !.wsRef = Null]
              ELSE h1
    IN [h2 EXCEPT !.status = "disconnected", !.reconnectAttemptsRef = 0]

\* Mutant: the readyState test is lost, the frame goes to whatever socket wsRef holds.
send_unguarded(h, data) ==
    IF h.wsRef = Null
    THEN [h EXCEPT !.console = Append(@, Log("Cannot send, WebSocket not connected", 0))]
    ELSE [h EXCEPT !.sent = Append(@, [sock |-> h.wsRef, text |-> Serialize(data)])]

send(h, data) ==
    IF ~(h.wsRef # Null /\ h.socks[h.wsRef] = "OPEN")
    THEN [h EXCEPT !.console = Append(@, Log("Cannot send, WebSocket not connected", 0))]
    ELSE [h EXCEPT !.sent = Append(@, [sock |-> h.wsRef, text |-> Serialize(data)])]

\* The mount effect: isManualDisconnectRef.current = false; connectInternal().
mountEffect(h) ==
    connectInternal([h EXCEPT !.isManualDisconnectRef = FALSE, !.mounted = TRUE])

\* The cleanup the mount effect returns: clearReconnectTimer(), close the socket.
mountEffectCleanup(h) ==
    LET h1 == clearReconnectTimer([h EXCEPT !.mounted = FALSE, !.unmounted = TRUE])
    IN IF h1.wsRef # Null
       THEN [h1 EXCEPT !.socks[h1.wsRef] = WsClose(@), !.wsRef = Null]
       ELSE h1


(***************************************************************************)
(* The event-log hook, src/src/hooks/useWebSocket.ts lines 51-253, with    *)
(* mockMode off.  Its timers are the reconnect timer of onclose / catch    *)
(* ("auto") and the 100 ms timer of reconnect() ("manual"), which no ref   *)
(* holds.                                                                  *)
(***************************************************************************)
EHookInit(urlValid, autoReconnect) ==
    [ socks                |-> << >>,
      established          |-> {},
      timers               |-> {},
      wsRef                |-> Null,
      reconnectTimeoutRef  |-> Null,
      reconnectAttemptsRef |-> 0,
      isManualCloseRef     |-> FALSE,
      status               |-> "disconnected",
      events               |-> << >>,
      lastError            |-> "null",
      mounted              |-> FALSE,
      unmounted            |-> FALSE,   \* the effect's cleanup has run
      sent                 |-> << >>,   \* frames transmitted by the running task
      urlValid             |-> urlValid,
      autoReconnect        |-> autoReconnect ]

EgetReconnectDelay(h) ==
    Min(initialReconnectDelay * Pow(2, h.reconnectAttemptsRef), maxReconnectDelay)

clearReconnectTimeout(h) ==
    IF h.reconnectTimeoutRef # Null
    THEN [h EXCEPT !.timers = {t \in @ : t.id # h.reconnectTimeoutRef},
                   !.reconnectTimeoutRef = Null]
    ELSE h

\* newEvents.slice(newEvents.length - maxEvents)
SliceFrom(seq, start) == SubSeq(seq, start + 1, Len(seq))

\* Mutant: the log keeps its oldest entries, slice(0, maxEvents).
addEvent_keepOldest(h, event) ==
    LET newEvents == Append(h.events, event)
    IN [h EXCEPT !.events = IF Len(newEvents) > maxEvents
                            THEN SubSeq(newEvents, 1, maxEvents)
                            ELSE newEvents]

addEvent(h, event) ==
    LET newEvents == Append(h.events, event)
    IN [h EXCEPT !.events = IF Len(newEvents) > maxEvents
                            THEN SliceFrom(newEvents, Len(newEvents) - maxEvents)
                            ELSE newEvents]

clearEvents(h) == [h EXCEPT !.events = << >>]

\* const delay = getReconnectDelay(); reconnectAttemptsRef.current++;
\* reconnectTimeoutRef.current = setTimeout(() => connect(), delay)
EscheduleReconnect(h) ==
    LET id == FreshTimerId(h.timers)
        delay == EgetReconnectDelay(h)
    IN [h EXCEPT !.reconnectAttemptsRef = @ + 1,
                 !.timers = @ \cup {[id |-> id, kind |-> "auto", delay |-> delay]},
                 !.reconnectTimeoutRef = id]

Econnect(h) ==
    IF h.wsRef # Null /\ h.socks[h.wsRef] \in {"OPEN", "CONNECTING"}
    THEN h
    ELSE LET h1 == [clearReconnectTimeout(h) EXCEPT !.status = "connecting",
                                                    !.lastError = "null"]
         IN IF h1.urlValid
            THEN [h1 EXCEPT !.socks = Append(@, "CONNECTING"),
                            !.wsRef = Len(h1.socks) + 1]
            ELSE \* new WebSocket(url) throws: the catch block
                 LET h2 == [h1 EXCEPT !.status = "error",
                                      !.lastError = "Failed to connect"]
                 IN IF h2.autoReconnect THEN EscheduleReconnect(h2) ELSE h2

Eonopen(h) ==
    [h EXCEPT !.status = "connected", !.lastError = "null",
              !.reconnectAttemptsRef = 0]

\* JSON.parse(event.data) and the event built from it, stamped with Date.now();
\* a frame that is no JSON, or that decodes to null (data.type throws), takes
\* the catch block and becomes a 'message' event carrying the raw text.
ParseFrame(frame, now) ==
    LET data == frame.data
    IN IF ~frame.isJson \/ data.valueOf \in {"null", "undefined"}
       THEN [type |-> "message", payload |-> frame.text, timestamp |-> now]
       ELSE [type      |-> IF data.typeOf = "undefined" \/ data.type = ""
                           THEN "unknown" ELSE data.type,
             payload   |-> IF data.payloadOf \in {"undefined", "null"}
                           THEN "data" ELSE "data.payload",
             timestamp |-> now]

\* Mutant: a frame that is no JSON is discarded.
Eonmessage_discardRaw(h, frame, now) ==
    IF ~frame.isJson THEN h ELSE addEvent(h, ParseFrame(frame, now))

Eonmessage(h, frame, now) == addEvent(h, ParseFrame(frame, now))

\* send of the event-log hook, mockMode off.
Esend(h, message) ==
    IF h.wsRef # Null /\ h.socks[h.wsRef] = "OPEN"
    THEN [h EXCEPT !.sent = Append(@, [sock |-> h.wsRef, text |-> Serialize(message)])]
    ELSE h

Eonerror(h) ==
    [h EXCEPT !.status = "error", !.lastError = "WebSocket error occurred"]

Eonclose(h) ==
    LET h1 == [h EXCEPT !.status = "disconnected", !.wsRef = Null]
        h2 == IF ~h1.isManualCloseRef /\ h1.autoReconnect
              THEN EscheduleReconnect(h1)
              ELSE h1
    IN [h2 EXCEPT !.isManualCloseRef = FALSE]

reconnect(h) ==
    LET h1 == IF h.wsRef # Null
              THEN [h EXCEPT !.isManualCloseRef = TRUE,
                             !.socks[h.wsRef] = WsClose(@),
                             !.wsRef = Null]
              ELSE h
        h2 == [clearReconnectTimeout(h1) EXCEPT !.reconnectAttemptsRef = 0,
                                                !.events = << >>]
    IN [h2 EXCEPT !.timers = @ \cup {[id |-> FreshTimerId(h2.timers),
                                      kind |-> "manual", delay |-> ReconnectPause]}]

\* The mount effect of the event-log hook.
EmountEffect(h) ==
    Econnect([h EXCEPT !.isManualCloseRef = FALSE, !.reconnectAttemptsRef = 0,
                       !.mounted = TRUE])

\* The cleanup the mount effect returns: mark the close as manual,
\* clearReconnectTimeout(), close the socket.
EmountEffectCleanup(h) ==
    LET h1 == clearReconnectTimeout([h EXCEPT !.isManualCloseRef = TRUE,
                                              !.mounted = FALSE, !.unmounted = TRUE])
    IN IF h1.wsRef # Null
       THEN [h1 EXCEPT !.socks[h1.wsRef] = WsClose(@), !.wsRef = Null]
       ELSE h1


(***************************************************************************)
(* The activity reducer: agentEvents.ts (src/unnamed/part_004) and         *)
(* useAgentActivities.ts.                                                  *)
(*                                                                         *)
(* A JavaScript value that may be undefined is None or Some(v).  An event  *)
(* carries the typeof of its type / agentId / timestamp fields beside      *)
(* their values, and its data object when it has one.  An AgentActivity    *)
(* is an object whose tokenUsage field refers to a TokenUsage object of    *)
(* the heap: the spread {...activity} copies the reference, not the        *)
(* object.  Arrays and metadata objects are never written in place, so     *)
(* they are kept by value.                                                 *)
(***************************************************************************)
None == << >>
Some(v) == <<v>>

TruthyString(o) == o # None /\ o[1] # ""
TruthyNumber(o) == o # None /\ o[1] # 0

validTypes ==
    {"agent_started", "agent_ended", "tool_called", "model_switched",
     "token_update", "heartbeat"}

\* Mutant: the check of the type against validTypes is lost.
isValidAgentEvent_anyType(e) ==
    /\ ~(TypeOf(e.valueOf) # "object" \/ e.valueOf = "null")
    /\ e.typeOf = "string"
    /\ e.agentIdOf = "string"
    /\ e.timestampOf = "number"

isValidAgentEvent(e) ==
    /\ ~(TypeOf(e.valueOf) # "object" \/ e.valueOf = "null")
    /\ e.typeOf = "string"
    /\ e.agentIdOf = "string"
    /\ e.timestampOf = "number"
    /\ e.type \in validTypes

isAgentStartedEvent(e) == e.type = "agent_started"

\* What a handler returns: the store and heap it leaves, or that it threw.
Outcome(store, hp, threw) == [store |-> store, heap |-> hp, threw |-> threw]

\* createInitialActivity allocates the activity and its TokenUsage object.
createInitialActivity(agentId, model, metadata, now, hp) ==
    [ activity |-> [ agentId      |-> agentId,
                     status       |-> Some("active"),
                     currentModel |-> model,
                     toolsUsed    |-> << >>,
                     tokenUsage   |-> Len(hp) + 1,
                     lastActivity |-> now,
                     startedAt    |-> now,
                     endedAt      |-> None,
                     metadata     |-> metadata ],
      heap     |-> Append(hp, [promptTokens |-> Some(0), completionTokens |-> Some(0),
                               totalTokens |-> Some(0)]),
      threw    |-> FALSE ]

\* {...a, ...b} of two objects; spreading undefined adds nothing.
Spread(a, b) ==
    LET x == IF a = None THEN << >> ELSE a[1]
        y == IF b = None THEN << >> ELSE b[1]
    IN [k \in DOMAIN x \cup DOMAIN y |-> IF k \in DOMAIN y THEN y[k] ELSE x[k]]

\* Mutant: token_update adds the counts to the previous ones.
tokenUpdate_accumulate(updated, d, hp) ==
    LET old == hp[updated.tokenUsage]
        Sum(x, y) == IF x = None \/ y = None THEN None ELSE Some(x[1] + y[1])
    IN [ activity |-> [updated EXCEPT !.tokenUsage = Len(hp) + 1],
         heap     |-> Append(hp, [promptTokens     |-> Sum(old.promptTokens, d.promptTokens),
                                  completionTokens |-> Sum(old.completionTokens, d.completionTokens),
                                  totalTokens      |-> Sum(old.totalTokens, d.totalTokens)]),
         threw    |-> FALSE ]

\* case 'token_update': updated.tokenUsage = { ... }, a new TokenUsage object.
tokenUpdate(updated, d, hp) ==
    [ activity |-> [updated EXCEPT !.tokenUsage = Len(hp) + 1],
      heap     |-> Append(hp, [promptTokens     |-> d.promptTokens,
                               completionTokens |-> d.completionTokens,
                               totalTokens      |-> d.totalTokens]),
      threw    |-> FALSE ]

\* Mutant: the first model an agent was given is kept.
modelSwitched_keepFirst(updated, d) ==
    IF updated.currentModel = None
    THEN [updated EXCEPT !.currentModel = d.newModel]
    ELSE updated

\* case 'model_switched': updated.currentModel = event.data.newModel
modelSwitched(updated, d) == [updated EXCEPT !.currentModel = d.newModel]

updateActivityFromEvent(activity, event, hp) ==
    LET updated == [activity EXCEPT !.lastActivity = event.timestamp]
        d == event.data
        Ret(a, h) == [activity |-> a, heap |-> h, threw |-> FALSE]
    IN IF ~event.hasData
       THEN \* event.data.<field> of undefined: TypeError
            [activity |-> activity, heap |-> hp, threw |-> TRUE]
       ELSE CASE event.type = "agent_started" ->
                   LET u1 == [updated EXCEPT !.status = Some("active")]
                       u2 == IF TruthyString(d.model)
                             THEN [u1 EXCEPT !.currentModel = d.model] ELSE u1
                       u3 == IF d.metadata # None
                             THEN [u2 EXCEPT !.metadata = Some(Spread(u2.metadata, d.metadata))]
                             ELSE u2
                   IN Ret(u3, hp)
              [] event.type = "agent_ended" ->
                   LET u1 == [updated EXCEPT
                                !.status = IF d.reason = Some("error")
                                           THEN Some("error") ELSE Some("ended"),
                                !.endedAt = Some(event.timestamp)]
                   IN IF TruthyNumber(d.finalTokenCount)
                      THEN \* updated.tokenUsage.totalTokens = ...: a write to the
                           \* TokenUsage object the copy shares with the original
                           Ret(u1, [hp EXCEPT ![u1.tokenUsage].totalTokens = d.finalTokenCount])
                      ELSE Ret(u1, hp)
              [] event.type = "tool_called" ->
                   Ret([updated EXCEPT !.toolsUsed =
                            Append(@, [toolName  |-> d.toolName,
                                       timestamp |-> event.timestamp,
                                       duration  |-> d.duration,
                                       input     |-> d.toolInput])], hp)
              [] event.type = "model_switched" ->
                   Ret(modelSwitched(updated, d), hp)
              [] event.type = "token_update" -> tokenUpdate(updated, d, hp)
              [] event.type = "heartbeat" ->
                   Ret([updated EXCEPT !.status = d.status], hp)
              [] OTHER -> Ret(updated, hp)

\* newActivities.set(key, value) on the copy of the Map.
MapSet(store, key, value) ==
    [k \in DOMAIN store \cup {key} |-> IF k = key THEN value ELSE store[k]]

\* The body both processEvent and processEvents run for one valid event.
\* processEvent: the updater handed to setActivities (lines 109-149).
processEventUpdater(prevActivities, hp, event, now) ==
    LET existing == event.agentId \in DOMAIN prevActivities
        r == IF isAgentStartedEvent(event)
             THEN IF existing
                  THEN updateActivityFromEvent(prevActivities[event.agentId], event, hp)
                  ELSE IF ~event.hasData
                       THEN [activity |-> << >>, heap |-> hp, threw |-> TRUE]
                       ELSE createInitialActivity(event.agentId, event.data.model,
                                                  event.data.metadata, now, hp)
             ELSE IF existing
                  THEN updateActivityFromEvent(prevActivities[event.agentId], event, hp)
                  ELSE LET placeholder == createInitialActivity(event.agentId, None, None, now, hp)
                       IN updateActivityFromEvent(placeholder.activity, event, placeholder.heap)
    IN IF r.threw
       THEN Outcome(prevActivities, r.heap, TRUE)
       ELSE Outcome(MapSet(prevActivities, event.agentId, r.activity), r.heap, FALSE)

processEvent(store, hp, event, now) ==
    IF ~isValidAgentEvent(event)
    THEN Outcome(store, hp, FALSE)
    ELSE processEventUpdater(store, hp, event, now)

\* processEvents: one updater that loops over the batch (lines 155-200).  When an
\* event throws, the updater throws and the store is not replaced.
RECURSIVE processEventsLoop(_, _, _, _, _)
processEventsLoop(newActivities, hp, events, i, now) ==
    IF i > Len(events)
    THEN Outcome(newActivities, hp, FALSE)
    ELSE LET event == events[i]
         IN IF ~isValidAgentEvent(event)
            THEN processEventsLoop(newActivities, hp, events, i + 1, now)   \* continue
            ELSE LET existing == event.agentId \in DOMAIN newActivities
                     r == IF isAgentStartedEvent(event)
                          THEN IF existing
                               THEN updateActivityFromEvent(newActivities[event.agentId], event, hp)
                               ELSE IF ~event.hasData
                                    THEN [activity |-> << >>, heap |-> hp, threw |-> TRUE]
                                    ELSE createInitialActivity(event.agentId, event.data.model,
                                                               event.data.metadata, now, hp)
                          ELSE IF existing
                               THEN updateActivityFromEvent(newActivities[event.agentId], event, hp)
                               ELSE LET placeholder ==
                                          createInitialActivity(event.agentId, None, None, now, hp)
                                    IN updateActivityFromEvent(placeholder.activity, event,
                                                               placeholder.heap)
                 IN IF r.threw
                    THEN Outcome(newActivities, r.heap, TRUE)
                    ELSE processEventsLoop(MapSet(newActivities, event.agentId, r.activity),
                                           r.heap, events, i + 1, now)

processEvents(store, hp, events, now) ==
    LET r == processEventsLoop(store, hp, events, 1, now)
    IN IF r.threw THEN Outcome(store, r.heap, TRUE) ELSE r

\* What a reader of a store sees: every activity with its TokenUsage object.
View(store, hp) ==
    [a \in DOMAIN store |-> [store[a] EXCEPT !.tokenUsage = hp[store[a].tokenUsage]]]


ELastInit ==
    [ op         |-> "none",    \* the operation
      sock       |-> Null,      \* the socket whose message / close event it handled
      preRef     |-> Null,      \* send, close: wsRef when it started
      pre        |-> "none",    \* send: readyState of that socket when it started
      input      |-> << >>,     \* the value send() was given / the frame that arrived
      errored    |-> << >>,     \* after an error event: status, error, timers it armed
      armed      |-> FALSE,     \* close: it armed an automatic reconnect timer
      keptStatus |-> TRUE,      \* send, message: it changed neither status nor lastError
      keptLog    |-> TRUE,      \* send, message: it did not change the event log
      opened     |-> 0 ]        \* after unmount: sockets it created

EHistInit ==
    [ byReconnect |-> {},       \* sockets that reconnect() closed
      before      |-> 0 ]       \* sockets created before the last reconnect()

\* The event-log hook before its run.
EIdle ==
    /\ arrivals = << >>
    /\ elast = ELastInit
    /\ ehist = EHistInit

\* The App before any message: useState(null) of the hook, nothing folded.
AIdle ==
    app = [ dirty    |-> FALSE,   \* lastMessage was set since the effect last ran
            received |-> << >>,   \* history: payloads of the agent_event envelopes accepted
            folded   |-> << >> ]  \* payloads handed to processEvent, in order

\* No validator was called yet.
GIdle ==
    probe = [fn |-> "none", input |-> << >>, verdict |-> FALSE, folded |-> FALSE]

\* The reducer before any event: useState(new Map()).
RIdle ==
    /\ activities = << >>
    /\ heap = << >>
    /\ folds = 0
    /\ rlast = [ op |-> "none", len |-> 0, nInvalid |-> 0, event |-> << >>,
                 lifecycle |-> FALSE,
                 lastTokens |-> << >>, lastModel |-> << >>, lastEnd |-> << >>,
                 snapshot |-> << >>,
                 snapView |-> << >>, result |-> [threw |-> FALSE, view |-> << >>],
                 oneByOne |-> [threw |-> FALSE, view |-> << >>],
                 split |-> [threw |-> FALSE, view |-> << >>],
                 skipped |-> [threw |-> FALSE, view |-> << >>] ]

(***************************************************************************)
(* History of the validated hook's run, kept beside the hook: which        *)
(* operation ran last, and what the claims need to remember of the past.   *)
(***************************************************************************)
VLastInit ==
    [ op         |-> "none",    \* the operation
      sock       |-> Null,      \* the socket whose event it handled
      preRef     |-> Null,      \* wsRef when it started
      pre        |-> "none",    \* readyState of that socket when it started
      preManual  |-> FALSE,     \* it started after disconnect(), before any connect()
      opened     |-> 0,         \* sockets it created
      input      |-> << >>,     \* the value send() was given / the frame that arrived
      errored    |-> << >>,     \* after an error event: status, error, timers it armed
      same       |-> TRUE ]     \* it changed no ref, state, socket or timer

VHistInit ==
    [ byDisconnect    |-> {},      \* sockets that disconnect() closed
      afterDisconnect |-> FALSE,   \* disconnect() returned, no connect() since
      sched           |-> << >>,   \* delays scheduled in the current automatic run
      autoAttempts    |-> 0,       \* timer callbacks run since the last open / manual call
      autoOpened      |-> 0,       \* sockets they opened since the last open / connect()
      ceiling         |-> FALSE ]  \* the attempt ceiling was reported, no open / connect() since

\* readyState of the socket wsRef holds, "none" for null.
CurrentReadyState(h) == IF h.wsRef = Null THEN "none" ELSE h.socks[h.wsRef]

Delays(console) ==
    LET idx == {i \in 1..Len(console) : console[i].msg = "Reconnecting in"}
        RECURSIVE Pick(_)
        Pick(i) == IF i > Len(console) THEN << >>
                   ELSE IF i \in idx THEN <<console[i].delay>> \o Pick(i + 1)
                   ELSE Pick(i + 1)
    IN Pick(1)

HitCeiling(console) ==
    \E i \in 1..Len(console) : console[i].msg = "Max reconnection attempts reached"

VHistNext(op, h, h2) ==
    LET opened == Len(h2.socks) - Len(h.socks)
        manual == op \in {"connect", "disconnect"}
        reset  == manual \/ op = "open"
    IN [ byDisconnect    |-> IF op = "disconnect" /\ h.wsRef # Null
                             THEN vhist.byDisconnect \cup {h.wsRef}
                             ELSE vhist.byDisconnect,
         afterDisconnect |-> IF op = "disconnect" THEN TRUE
                             ELSE IF op = "connect" THEN FALSE
                             ELSE vhist.afterDisconnect,
         sched           |-> (IF reset THEN << >> ELSE vhist.sched) \o Delays(h2.console),
         autoAttempts    |-> IF reset THEN 0
                             ELSE IF op = "timer" THEN vhist.autoAttempts + 1
                             ELSE vhist.autoAttempts,
         autoOpened      |-> IF op \in {"connect", "open"} THEN 0
                             ELSE IF op = "timer" THEN vhist.autoOpened + opened
                             ELSE vhist.autoOpened,
         ceiling         |-> IF op \in {"connect", "open"} THEN FALSE
                             ELSE vhist.ceiling \/ HitCeiling(h2.console) ]

\* One task of the event loop: handler result h2 becomes the hook's state.
VTask(op, s, input, errored, h2) ==
    /\ Len(h2.socks) <= MaxSockets
    /\ vh' = h2
    /\ vlast' = [op |-> op, sock |-> s, preRef |-> vh.wsRef,
                 pre |-> CurrentReadyState(vh),
                 preManual |-> vhist.afterDisconnect,
                 opened |-> Len(h2.socks) - Len(vh.socks),
                 input |-> input,
                 errored |-> errored,
                 same |-> ([h2 EXCEPT !.console = << >>, !.sent = << >>]
                           = [vh EXCEPT !.console = << >>, !.sent = << >>])]
    /\ vhist' = VHistNext(op, vh, h2)
    /\ UNCHANGED <<evars, rvars, gvars>>

\* A task of the hook that the App's effect does not run in.
VStep(op, s, input, errored, h2) ==
    /\ VTask(op, s, input, errored, h2)
    /\ UNCHANGED avars

\* The hook as a handler finds it: console and transmitted frames are per task.
VNow == [vh EXCEPT !.console = << >>, !.sent = << >>]

\* What an error handler left: status, error, and whether it armed a timer.
AfterError(status, error, armed) ==
    <<[status |-> status, error |-> error, armed |-> armed]>>

\* The values send() is called with: a string, an object.
SendInputs ==
    { [typeOf |-> "string", value |-> "ping"],
      [typeOf |-> "object", value |-> [type |-> "ping"]] }

\* The frames a server sends: text that is no JSON, JSON that fails the
\* validation gate, JSON that passes it.
Frames ==
    { Frame("not json", FALSE, Message("undefined", "undefined", "", "undefined")),
      Frame("{\"type\":\"bogus\"}", TRUE, Message("object", "string", "bogus", "undefined")),
      Frame("{\"type\":\"heartbeat\",\"payload\":{}}", TRUE,
            Message("object", "string", "heartbeat", "object")) }

VMount ==
    /\ ~vh.mounted
    /\ ~vh.unmounted
    /\ VStep("mount", Null, << >>, << >>, mountEffect(VNow))

VConnect ==
    /\ vh.mounted
    /\ VStep("connect", Null, << >>, << >>, connect(VNow))

VDisconnect ==
    /\ vh.mounted
    /\ VStep("disconnect", Null, << >>, << >>, disconnect(VNow))

\* The component unmounts: the effect's cleanup runs, once.
VUnmount ==
    /\ vh.mounted
    /\ VStep("unmount", Null, << >>, << >>, mountEffectCleanup(VNow))

VSend ==
    \E data \in SendInputs :
        /\ vh.mounted
        /\ VStep("send", Null, <<data>>, << >>, send(VNow, data))

VTimerFire ==
    \E t \in vh.timers :
        /\ vh.reconnectAttemptsRef < AttemptCap
        /\ VStep("timer", Null, << >>, << >>,
                 reconnectTimerCallback([VNow EXCEPT !.timers = @ \ {t}]))

\* The connection is established.
VSockOpen ==
    \E s \in 1..Len(vh.socks) :
        /\ vh.socks[s] = "CONNECTING"
        /\ VStep("open", s, << >>, << >>,
                 onopen([VNow EXCEPT !.socks[s] = "OPEN", !.established = @ \cup {s}]))

\* A frame arrives on an open socket.
VSockMessage ==
    \E s \in 1..Len(vh.socks), frame \in Frames :
        /\ vh.socks[s] = "OPEN"
        /\ VStep("message", s, <<frame>>, << >>, onmessage(VNow, frame))

\* The server starts the closing handshake of an open socket.
VSockClosing ==
    \E s \in 1..Len(vh.socks) :
        /\ vh.socks[s] = "OPEN"
        /\ VStep("closing", s, << >>, << >>, [VNow EXCEPT !.socks[s] = "CLOSING"])

\* The connection is closed: the close event, after an error event when the
\* connection failed (always so for a socket that never opened).
VSockClose ==
    \E s \in 1..Len(vh.socks), failed \in BOOLEAN :
        /\ vh.socks[s] # "CLOSED"
        /\ s \notin vh.established => failed
        /\ LET h1 == [VNow EXCEPT !.socks[s] = "CLOSED"]
               h2 == IF failed THEN onerror(h1) ELSE h1
           IN VStep("close", s, << >>, IF failed THEN AfterError(h2.status, h2.error, h2.timers # h1.timers)
                              ELSE << >>,
                    onclose(h2))

VInit ==
    /\ vh \in {VHookInit(u, m) : u \in BOOLEAN, m \in {Infinity, FiniteMaxAttempts}}
    /\ vlast = VLastInit
    /\ vhist = VHistInit
    /\ eh = EHookInit(TRUE, TRUE)
    /\ EIdle
    /\ RIdle
    /\ GIdle
    /\ AIdle

VNext ==
    \/ VMount
    \/ VConnect
    \/ VDisconnect
    \/ VTimerFire
    \/ VSockOpen
    \/ VSockClosing
    \/ VSockClose

SpecV == VInit /\ [][VNext]_vars


(***************************************************************************)
(* The event loop of the event-log hook.                                   *)
(***************************************************************************)
EHistNext(op, s, h, appended) ==
    [ byReconnect |-> IF op = "reconnect" /\ h.wsRef # Null
                      THEN ehist.byReconnect \cup {h.wsRef}
                      ELSE ehist.byReconnect,
      before      |-> IF op = "reconnect" THEN Len(h.socks) ELSE ehist.before ]

\* One task of the event loop: handler result h2 becomes the hook's state.
EStep(op, s, input, errored, h2, appended) ==
    /\ Len(h2.socks) <= MaxSocketsE
    /\ Cardinality(h2.timers) <= MaxTimers
    /\ eh' = h2
    /\ arrivals' = appended
    /\ elast' = [ELastInit EXCEPT
                    !.op = op,
                    !.sock = s,
                    !.preRef = IF op \in {"send", "close"} THEN eh.wsRef ELSE Null,
                    !.pre = IF op = "send" THEN CurrentReadyState(eh) ELSE "none",
                    !.input = input,
                    !.errored = errored,
                    !.armed = op = "close" /\ \E t \in h2.timers \ eh.timers : t.kind = "auto",
                    !.keptStatus = op \in {"send", "message"} =>
                                       (h2.status = eh.status /\ h2.lastError = eh.lastError),
                    !.keptLog = op \in {"send", "message"} => h2.events = eh.events,
                    !.opened = IF h2.unmounted THEN Len(h2.socks) - Len(eh.socks) ELSE 0]
    /\ ehist' = EHistNext(op, s, eh, appended)
    /\ UNCHANGED <<vvars, rvars, gvars, avars>>

\* The hook as a handler finds it: transmitted frames are per task.
ENow == [eh EXCEPT !.sent = << >>]

EMount ==
    /\ ~eh.mounted
    /\ ~eh.unmounted
    /\ EStep("mount", Null, << >>, << >>, EmountEffect(ENow), arrivals)

EReconnect ==
    /\ eh.mounted
    /\ EStep("reconnect", Null, << >>, << >>, reconnect(ENow), << >>)

EClearEvents ==
    /\ eh.mounted
    /\ EStep("clearEvents", Null, << >>, << >>, clearEvents(ENow), << >>)

\* The component unmounts: the effect's cleanup runs, once.
EUnmount ==
    /\ eh.mounted
    /\ EStep("unmount", Null, << >>, << >>, EmountEffectCleanup(ENow), arrivals)

ESend ==
    \E message \in SendInputs :
        /\ eh.mounted
        /\ EStep("send", Null, <<message>>, << >>, Esend(ENow, message), arrivals)

\* A timer fires: both kinds call connect().
ETimerFire ==
    \E t \in eh.timers :
        /\ eh.reconnectAttemptsRef < AttemptCap
        /\ EStep("timer", Null, << >>, << >>,
                 Econnect([ENow EXCEPT !.timers = @ \ {t}]), arrivals)

ESockOpen ==
    \E s \in 1..Len(eh.socks) :
        /\ eh.socks[s] = "CONNECTING"
        /\ EStep("open", Null, << >>, << >>,
                 Eonopen([ENow EXCEPT !.socks[s] = "OPEN", !.established = @ \cup {s}]),
                 arrivals)

\* A frame arrives on an open socket; Date.now() is the arrival's number.
ESockMessage ==
    \E s \in 1..Len(eh.socks), frame \in Frames :
        /\ eh.socks[s] = "OPEN"
        /\ Len(arrivals) < MaxFrames
        /\ LET now == Len(arrivals) + 1
           IN EStep("message", s, <<frame>>, << >>, Eonmessage(ENow, frame, now),
                    Append(arrivals, ParseFrame(frame, now)))

ESockClosing ==
    \E s \in 1..Len(eh.socks) :
        /\ eh.socks[s] = "OPEN"
        /\ EStep("closing", Null, << >>, << >>, [ENow EXCEPT !.socks[s] = "CLOSING"], arrivals)

ESockClose ==
    \E s \in 1..Len(eh.socks), failed \in BOOLEAN :
        /\ eh.socks[s] # "CLOSED"
        /\ s \notin eh.established => failed
        /\ LET h1 == [ENow EXCEPT !.socks[s] = "CLOSED"]
               h2 == IF failed THEN Eonerror(h1) ELSE h1
           IN EStep("close", s, << >>,
                    IF failed
                    THEN AfterError(h2.status, h2.lastError, h2.timers # h1.timers)
                    ELSE << >>,
                    Eonclose(h2), arrivals)

EInit ==
    /\ eh \in {EHookInit(u, a) : u \in BOOLEAN, a \in BOOLEAN}
    /\ EIdle
    /\ RIdle
    /\ vh = VHookInit(TRUE, Infinity)
    /\ vlast = VLastInit
    /\ vhist = VHistInit
    /\ GIdle
    /\ AIdle

ENext ==
    \/ EMount
    \/ EReconnect
    \/ EClearEvents
    \/ ETimerFire
    \/ ESockOpen
    \/ ESockMessage
    \/ ESockClosing
    \/ ESockClose

SpecE == EInit /\ [][ENext]_vars

(***************************************************************************)
(* Runs of either hook in which the component also calls send() and, for   *)
(* the validated hook, frames arrive.  A run uses one of the two hooks;    *)
(* the other stays as constructed.                                         *)
(***************************************************************************)
SInit == VInit \/ EInit

\* A task of the validated hook, in a run that uses this hook.
SNextV(task) ==
    /\ eh = EHookInit(TRUE, TRUE)
    /\ task
    /\ Len(vh'.socks) <= MaxSocketsS

\* A task of the event-log hook, in a run that uses this hook.
SNextE(task) ==
    /\ vh = VHookInit(TRUE, Infinity)
    /\ task
    /\ Len(eh'.socks) <= MaxSocketsS

SNext ==
    \/ SNextV(VMount)
    \/ SNextV(VConnect)
    \/ SNextV(VDisconnect)
    \/ SNextV(VSend)
    \/ SNextV(VTimerFire)
    \/ SNextV(VSockOpen)
    \/ SNextV(VSockMessage)
    \/ SNextV(VSockClosing)
    \/ SNextV(VSockClose)
    \/ SNextE(EMount)
    \/ SNextE(EReconnect)
    \/ SNextE(EClearEvents)
    \/ SNextE(ESend)
    \/ SNextE(ETimerFire)
    \/ SNextE(ESockOpen)
    \/ SNextE(ESockMessage)
    \/ SNextE(ESockClosing)
    \/ SNextE(ESockClose)

SpecS == SInit /\ [][SNext]_vars

(***************************************************************************)
(* Runs of either hook in which the component unmounts: afterwards only    *)
(* timers and socket events run.                                           *)
(***************************************************************************)
UNext ==
    \/ SNextV(VMount)
    \/ SNextV(VConnect)
    \/ SNextV(VDisconnect)
    \/ SNextV(VUnmount)
    \/ SNextV(VTimerFire)
    \/ SNextV(VSockOpen)
    \/ SNextV(VSockClosing)
    \/ SNextV(VSockClose)
    \/ SNextE(EMount)
    \/ SNextE(EReconnect)
    \/ SNextE(EUnmount)
    \/ SNextE(ETimerFire)
    \/ SNextE(ESockOpen)
    \/ SNextE(ESockClosing)
    \/ SNextE(ESockClose)

SpecU == SInit /\ [][UNext]_vars

(***************************************************************************)
(* The dashboard App, src/src/App.tsx: it reads lastMessage of the         *)
(* validated hook, and its effect on [lastMessage, processEvent] hands the *)
(* payload of an agent_event envelope to processEvent.  React runs the     *)
(* effect after a render that found lastMessage changed; how many message  *)
(* events run before that render is the scheduler's choice.                *)
(***************************************************************************)
\* A decoded envelope {type, payload}; payload names the event it carries.
Envelope(type, payload) ==
    [ valueOf |-> "object", typeOf |-> "string", type |-> type,
      payloadOf |-> "object", payload |-> payload ]

\* The frames the server sends the App: two agent events, a heartbeat.
Envelopes ==
    { Frame("{\"type\":\"agent_event\",\"payload\":e1}", TRUE, Envelope("agent_event", "e1")),
      Frame("{\"type\":\"agent_event\",\"payload\":e2}", TRUE, Envelope("agent_event", "e2")),
      Frame("{\"type\":\"heartbeat\",\"payload\":{}}", TRUE, Envelope("heartbeat", "none")) }

\* The effect on lastMessage (App.tsx lines 66-82).
messageEffect(a, lastMessage) ==
    IF lastMessage = << >>
    THEN a
    ELSE IF lastMessage[1].type = "agent_event" /\ lastMessage[1].payloadOf # "undefined"
    THEN [a EXCEPT !.folded = Append(@, lastMessage[1].payload)]
    ELSE a

\* A frame arrives on the open socket: ws.onmessage of the hook.
AFrame ==
    \E s \in 1..Len(vh.socks), frame \in Envelopes :
        LET h2 == onmessage(VNow, frame)
            set == h2.lastMessage # VNow.lastMessage \/ isValidMessage(frame.data)
        IN /\ vh.socks[s] = "OPEN"
           /\ Len(app.received) < MaxEnvelopes
           /\ VTask("message", s, <<frame>>, << >>, h2)
           /\ app' = [app EXCEPT
                         !.dirty = @ \/ set,
                         !.received = IF set /\ frame.data.type = "agent_event"
                                      THEN Append(@, frame.data.payload) ELSE @]

\* React renders the App with the state as it is now and runs the effect.
ARender ==
    /\ app.dirty
    /\ app' = messageEffect([app EXCEPT !.dirty = FALSE], vh.lastMessage)
    /\ UNCHANGED <<vvars, evars, rvars, gvars>>

ANext ==
    \/ SNextV(VMount)
    \/ SNextV(VSockOpen)
    \/ SNextV(VSockClosing)
    \/ SNextV(VSockClose)
    \/ SNextV(VTimerFire)
    \/ AFrame
    \/ ARender

SpecA == VInit /\ [][ANext]_vars

(***************************************************************************)
(* The events the reducer is run on.                                       *)
(***************************************************************************)
NoFields ==
    [ model |-> None, metadata |-> None, reason |-> None, finalTokenCount |-> None,
      toolName |-> None, duration |-> None, toolInput |-> None, newModel |-> None,
      promptTokens |-> None, completionTokens |-> None, totalTokens |-> None,
      delta |-> None, status |-> None ]

Ev(type, agentId, timestamp, data) ==
    [ valueOf |-> "object",
      typeOf |-> "string", type |-> type, agentIdOf |-> "string", agentId |-> agentId,
      timestampOf |-> "number", timestamp |-> timestamp, hasData |-> TRUE, data |-> data ]

Tokens(p, c, t) ==
    [NoFields EXCEPT !.promptTokens = Some(p), !.completionTokens = Some(c),
                     !.totalTokens = Some(t)]

ValidEvents ==
    { Ev("agent_started", "a1", 1, [NoFields EXCEPT !.model = Some("gpt-4"),
                                        !.metadata = Some([env |-> "prod"])]),
      Ev("agent_started", "a1", 2, NoFields),
      Ev("agent_ended", "a1", 2, [NoFields EXCEPT !.reason = Some("completed"),
                                      !.finalTokenCount = Some(500)]),
      Ev("agent_ended", "a1", 1, [NoFields EXCEPT !.reason = Some("error")]),
      Ev("tool_called", "a1", 2, [NoFields EXCEPT !.toolName = Some("read"),
                                      !.duration = Some(5)]),
      Ev("model_switched", "a1", 2, [NoFields EXCEPT !.newModel = Some("gpt-4-turbo")]),
      Ev("token_update", "a1", 1, [Tokens(100, 50, 150) EXCEPT !.delta = Some(7)]),
      Ev("token_update", "a1", 2, Tokens(10, 5, 15)),
      Ev("heartbeat", "a1", 1, [NoFields EXCEPT !.status = Some("idle")]),
      Ev("heartbeat", "a1", 2, [NoFields EXCEPT !.status = Some("paused")]),
      Ev("heartbeat", "a1", 1, [NoFields EXCEPT !.status = Some("ended")]),
      Ev("agent_started", "a2", 1, [NoFields EXCEPT !.model = Some("gpt-4-turbo")]),
      Ev("token_update", "a2", 1, Tokens(10, 5, 15)),
      Ev("agent_ended", "a2", 2, [NoFields EXCEPT !.finalTokenCount = Some(500)]) }

\* Accepted by isValidAgentEvent, with no data object.
DatalessEvents ==
    { [Ev("agent_started", "a1", 1, NoFields) EXCEPT !.hasData = FALSE] }

InvalidEvents ==
    { [Ev("tool_called", "", 1, [NoFields EXCEPT !.toolName = Some("read")])
          EXCEPT !.agentIdOf = "undefined"],
      [Ev("token_update", "a1", 0, Tokens(10, 5, 15)) EXCEPT !.timestampOf = "undefined"],
      [Ev("", "a1", 1, NoFields) EXCEPT !.typeOf = "number"],
      Ev("unknown_type", "a1", 1, NoFields) }

Events == ValidEvents \cup DatalessEvents \cup InvalidEvents

\* The events of one agent's life, in order: started with a model, a tool
\* call, a model switch, the end.
Lifecycle ==
    << Ev("agent_started", "a1", 1, [NoFields EXCEPT !.model = Some("gpt-4")]),
       Ev("tool_called", "a1", 2, [NoFields EXCEPT !.toolName = Some("read")]),
       Ev("model_switched", "a1", 3, [NoFields EXCEPT !.newModel = Some("gpt-4-turbo")]),
       Ev("agent_ended", "a1", 4, [NoFields EXCEPT !.reason = Some("completed")]) >>

\* Date.now() as the reducer reads it.
Clock == {9}

Batches(n) == UNION {[1..k -> Events] : k \in 1..n}

(***************************************************************************)
(* The reducer's run: events are folded one at a time or in batches.  The  *)
(* history keeps the store as it was handed out before the last fold, and  *)
(* what the other ways of folding the same events give.                    *)
(***************************************************************************)
\* Calling processEvent on each event of the batch, in order.
RECURSIVE FoldOneByOne(_, _, _, _, _)
FoldOneByOne(store, hp, events, i, now) ==
    IF i > Len(events)
    THEN Outcome(store, hp, FALSE)
    ELSE LET o == processEvent(store, hp, events[i], now)
         IN IF o.threw THEN o ELSE FoldOneByOne(o.store, o.heap, events, i + 1, now)

\* processEvents on all but the last event, then processEvent on the last.
FoldSplit(store, hp, events, now) ==
    LET o == processEvents(store, hp, SubSeq(events, 1, Len(events) - 1), now)
    IN IF o.threw THEN o ELSE processEvent(o.store, o.heap, events[Len(events)], now)

\* The events the specification calls invalid: agentId missing, timestamp
\* missing, type not a string, or type outside the six kinds.
Malformed(e) ==
    \/ e.agentIdOf = "undefined"
    \/ e.timestampOf = "undefined"
    \/ e.typeOf # "string"
    \/ e.type \notin {"agent_started", "agent_ended", "tool_called",
                      "model_switched", "token_update", "heartbeat"}

WellFormed(e) == ~Malformed(e)

\* The end of a fold: whether it threw, and the store as a reader finds it.
\* History: the counts of the latest token_update folded for each agent.
RECURSIVE LatestTokens(_, _, _)
LatestTokens(latest, events, i) ==
    IF i > Len(events) THEN latest
    ELSE LET e == events[i]
         IN LatestTokens(IF WellFormed(e) /\ e.type = "token_update" /\ e.hasData
                         THEN MapSet(latest, e.agentId, e.data)
                         ELSE latest,
                         events, i + 1)

\* History: the model the latest model_switched, or agent_started carrying a
\* model, gave each agent.
RECURSIVE LatestModel(_, _, _)
LatestModel(latest, events, i) ==
    IF i > Len(events) THEN latest
    ELSE LET e == events[i]
             writes == /\ WellFormed(e)
                       /\ e.hasData
                       /\ \/ e.type = "model_switched"
                          \/ e.type = "agent_started" /\ e.data.model # None
             value == IF e.type = "model_switched" THEN e.data.newModel ELSE e.data.model
         IN LatestModel(IF writes THEN MapSet(latest, e.agentId, value) ELSE latest,
                        events, i + 1)

\* History: the timestamp of the latest agent_ended folded for each agent.
RECURSIVE LatestEnd(_, _, _)
LatestEnd(latest, events, i) ==
    IF i > Len(events) THEN latest
    ELSE LET e == events[i]
         IN LatestEnd(IF WellFormed(e) /\ e.type = "agent_ended" /\ e.hasData
                      THEN MapSet(latest, e.agentId, e.timestamp)
                      ELSE latest,
                      events, i + 1)

Seen(o) == [threw |-> o.threw, view |-> View(o.store, o.heap)]

RLast(op, events, now, o) ==
    [ op         |-> op,
      len        |-> Len(events),
      nInvalid   |-> Cardinality({i \in 1..Len(events) : Malformed(events[i])}),
      event      |-> IF op = "processEvent" THEN events ELSE << >>,
      lifecycle  |-> events = Lifecycle,
      lastTokens |-> IF o.threw THEN rlast.lastTokens
                     ELSE LatestTokens(rlast.lastTokens, events, 1),
      lastModel  |-> IF o.threw THEN rlast.lastModel
                     ELSE LatestModel(rlast.lastModel, events, 1),
      lastEnd    |-> IF o.threw THEN rlast.lastEnd
                     ELSE LatestEnd(rlast.lastEnd, events, 1),
      snapshot   |-> activities,
      snapView   |-> View(activities, heap),
      result     |-> Seen(o),
      oneByOne   |-> Seen(FoldOneByOne(activities, heap, events, 1, now)),
      split      |-> IF Len(events) < 2 THEN Seen(o)
                     ELSE Seen(FoldSplit(activities, heap, events, now)),
      skipped    |-> Seen(processEvents(activities, heap,
                                        SelectSeq(events, WellFormed), now)) ]

\* The store React commits: the updater's result, or the old store when it threw.
RStep(op, events, now, o) ==
    /\ ~rlast.result.threw
    /\ activities' = o.store
    /\ heap' = o.heap
    /\ folds' = folds + Len(events)
    /\ rlast' = RLast(op, events, now, o)
    /\ UNCHANGED <<vvars, evars, gvars, avars>>

RProcessEvent ==
    \E e \in Events, now \in Clock :
        /\ folds < MaxFolds
        /\ RStep("processEvent", <<e>>, now, processEvent(activities, heap, e, now))

RProcessEvents ==
    \E events \in Batches(MaxFolds - folds), now \in Clock :
        RStep("processEvents", events, now, processEvents(activities, heap, events, now))

\* The whole life of one agent handed to a fresh store as one batch.
RLifecycle ==
    \E now \in Clock :
        /\ folds = 0
        /\ RStep("processEvents", Lifecycle, now,
                 processEvents(activities, heap, Lifecycle, now))

RInit ==
    /\ RIdle
    /\ vh = VHookInit(TRUE, Infinity)
    /\ vlast = VLastInit
    /\ vhist = VHistInit
    /\ eh = EHookInit(TRUE, TRUE)
    /\ EIdle
    /\ GIdle
    /\ AIdle

RNext == RProcessEvent \/ RProcessEvents \/ RLifecycle

SpecR == RInit /\ [][RNext]_vars

(***************************************************************************)
(* The validators on their own: each is called on one candidate value.     *)
(***************************************************************************)
JsValues == {"object", "array", "null", "string", "number", "undefined"}

\* Candidate events: objects with every combination of type, agentId and
\* timestamp fields, and the values that are no plain object.
EventCandidates ==
    LET types  == {<<"string", t>> : t \in validTypes \cup {"unknown_type", ""}}
                      \cup {<<"number", "">>, <<"undefined", "">>}
        agents == {<<"string", "a1">>, <<"string", "">>, <<"number", "">>,
                   <<"undefined", "">>}
        stamps == {"number", "string", "undefined"}
    IN {[Ev(t[2], a[2], 1, NoFields) EXCEPT !.typeOf = t[1], !.agentIdOf = a[1],
                                            !.timestampOf = ts] :
            t \in types, a \in agents, ts \in stamps}
       \cup {[Ev("", "", 0, NoFields) EXCEPT !.valueOf = v, !.typeOf = "undefined",
                                            !.agentIdOf = "undefined",
                                            !.timestampOf = "undefined", !.hasData = FALSE] :
                v \in JsValues \ {"object"}}

\* Candidate decoded frames.
MessageCandidates ==
    LET types == {<<"string", t>> : t \in validMessageTypes \cup {"agent_started", ""}}
                     \cup {<<"number", "">>, <<"undefined", "">>}
    IN {Message("object", t[1], t[2], p) : t \in types, p \in JsValues}
       \cup {Message(v, "undefined", "", "undefined") : v \in JsValues \ {"object"}}

\* isValidAgentEvent(e), and whether processEvent(e) on an empty store folds it.
GIsValidAgentEvent ==
    \E e \in EventCandidates, now \in Clock :
        /\ probe' = [fn |-> "isValidAgentEvent", input |-> e,
                     verdict |-> isValidAgentEvent(e),
                     folded |-> processEvent(<< >>, << >>, e, now).store # << >>]
        /\ UNCHANGED <<vvars, evars, rvars, avars>>

GIsValidMessage ==
    \E d \in MessageCandidates :
        /\ probe' = [fn |-> "isValidMessage", input |-> d,
                     verdict |-> isValidMessage(d), folded |-> FALSE]
        /\ UNCHANGED <<vvars, evars, rvars, avars>>

GInit ==
    /\ GIdle
    /\ AIdle
    /\ RIdle
    /\ vh = VHookInit(TRUE, Infinity)
    /\ vlast = VLastInit
    /\ vhist = VHistInit
    /\ eh = EHookInit(TRUE, TRUE)
    /\ EIdle

GNext == GIsValidAgentEvent \/ GIsValidMessage

SpecG == GInit /\ [][GNext]_vars

(***************************************************************************)
(* Claims about the validated hook.                                        *)
(***************************************************************************)
LiveSockets(h) == {s \in 1..Len(h.socks) : h.socks[s] \in LiveStates}

\* C1: the close callback of a socket that disconnect() closed schedules no
\* reconnect timer.
C1_ManualCloseSchedulesNothing ==
    (vlast.op = "close" /\ vlast.sock \in vhist.byDisconnect)
        => Delays(vh.console) = << >>

\* C2: at most one socket created by a hook instance is CONNECTING or OPEN,
\* in the validated hook and in the event-log hook.
C2_AtMostOneLiveSocket ==
    /\ Cardinality(LiveSockets(vh)) <= 1
    /\ Cardinality(LiveSockets(eh)) <= 1

\* C3: from disconnect() until the next connect() no socket is opened, no
\* reconnect timer is pending or fires, status stays 'disconnected', and a
\* second disconnect() changes nothing.
C3_DisconnectIsTerminal ==
    /\ vhist.afterDisconnect =>
           /\ vh.status = "disconnected"
           /\ vh.timers = {}
           /\ vlast.opened = 0
           /\ vlast.op # "timer"
    /\ (vlast.op = "disconnect" /\ vlast.preManual) => vlast.same

\* C4: connect() while the current socket is OPEN or CONNECTING neither closes
\* that socket nor creates another.
C4_ConnectIsNoOpOnLiveSocket ==
    (vlast.op = "connect" /\ vlast.pre \in LiveStates) =>
        /\ vlast.opened = 0
        /\ vh.socks[vlast.preRef] = vlast.pre
        /\ vh.wsRef = vlast.preRef

\* The delay the backoff policy gives the k-th timer of a run (k from 0), with
\* the defaults 1000 / 2 / 30000.
ExpectedDelay(k) ==
    CASE k = 0 -> 1000 [] k = 1 -> 2000 [] k = 2 -> 4000 [] k = 3 -> 8000
      [] k = 4 -> 16000 [] OTHER -> 30000

\* C5: in a run of automatic reconnects with no open and no manual call in
\* between, the k-th timer scheduled has delay min(1000 * 2^k, 30000).
C5_BackoffSequence ==
    \A k \in 1..Len(vhist.sched) : vhist.sched[k] = ExpectedDelay(k - 1)

\* C6: with maxReconnectAttempts = N, once N automatic attempts were made
\* without an open, the next unexpected close schedules nothing and reports the
\* ceiling, no socket is opened until connect(), and at most N sockets are
\* opened automatically between two opens.
C6_AttemptCeiling ==
    vh.maxReconnectAttempts = FiniteMaxAttempts =>
        /\ (/\ vlast.op = "close"
            /\ vlast.sock \notin vhist.byDisconnect
            /\ ~vlast.preManual
            /\ vhist.autoAttempts >= FiniteMaxAttempts)
              => /\ Delays(vh.console) = << >>
                 /\ vh.status = "disconnected"
                 /\ vh.error = "Max reconnection attempts reached"
        /\ vhist.ceiling => vlast.opened = 0
        /\ vhist.autoOpened <= FiniteMaxAttempts


(***************************************************************************)
(* Claims about the event-log hook.                                        *)
(***************************************************************************)
\* The last n elements of seq (all of it when it has fewer).
LastN(seq, n) == IF Len(seq) <= n THEN seq ELSE SubSeq(seq, Len(seq) - n + 1, Len(seq))

\* C7: the event log holds at most maxEvents entries and is the last
\* min(n, maxEvents) of the n events appended since it was last emptied, in
\* arrival order.
C7_LogIsBoundedFifo ==
    /\ Len(eh.events) <= maxEvents
    /\ eh.events = LastN(arrivals, maxEvents)

\* C7 witness: more than maxEvents events arrived and the oldest was evicted.
C7_Witness ==
    /\ Len(arrivals) > maxEvents
    /\ Len(eh.events) = maxEvents
    /\ eh.events[1] = arrivals[Len(arrivals) - maxEvents + 1]

\* The event-log hook's half of C2, for runs of the event-log hook.
C2_AtMostOneLiveSocketE ==
    Cardinality(LiveSockets(eh)) <= 1


(***************************************************************************)
(* Claims about the activity reducer.                                      *)
(***************************************************************************)
\* C8: processEvents ends with the store that processEvent on each event in
\* order ends with, and with the store that folding all but the last event and
\* then the last ends with.
C8_BatchEqualsOneByOne ==
    rlast.op = "processEvents" =>
        /\ rlast.result = rlast.oneByOne
        /\ rlast.len >= 2 => rlast.result = rlast.split

\* C9: an invalid event leaves the store as it was, and a batch is folded as
\* if its invalid events were absent.
C9_InvalidEventsAreSkipped ==
    /\ (rlast.op # "none" /\ rlast.nInvalid = rlast.len) =>
           /\ ~rlast.result.threw
           /\ DOMAIN activities = DOMAIN rlast.snapshot
           /\ View(activities, heap) = rlast.snapView
    /\ rlast.op = "processEvents" => rlast.result = rlast.skipped

\* C9 witness: a batch with an invalid event between valid ones changed the store.
C9_Witness ==
    /\ rlast.op = "processEvents"
    /\ rlast.nInvalid = 1
    /\ rlast.len = 3
    /\ ~rlast.result.threw
    /\ View(activities, heap) # rlast.snapView

\* C10: a store that was handed out reads the same after the next fold.
C10_SnapshotsAreNotMutated ==
    rlast.op # "none" => View(rlast.snapshot, heap) = rlast.snapView

\* C11: no fold throws: every call of processEvent / processEvents completes.
C11_NeverThrows ==
    ~rlast.result.threw

\* C12: folding one valid event whose agentId is not a key of the store adds an
\* entry for it and leaves the other entries as they were; a tool_called event
\* gives an entry with status 'active' and that one tool call.
C12_UnseenAgentGetsEntry ==
    (/\ rlast.op = "processEvent"
     /\ WellFormed(rlast.event[1])
     /\ rlast.event[1].agentId \notin DOMAIN rlast.snapshot)
        => LET e == rlast.event[1]
           IN /\ e.agentId \in DOMAIN activities
              /\ \A a \in DOMAIN rlast.snapshot :
                     /\ a \in DOMAIN activities
                     /\ View(activities, heap)[a] = rlast.snapView[a]
              /\ e.type = "tool_called" =>
                     /\ activities[e.agentId].status = Some("active")
                     /\ Len(activities[e.agentId].toolsUsed) = 1
                     /\ activities[e.agentId].toolsUsed[1].toolName = e.data.toolName
                     /\ activities[e.agentId].toolsUsed[1].timestamp = e.timestamp

\* C12 for the folds that complete.
C12_UnseenAgentGetsEntryUnlessThrown ==
    rlast.result.threw \/ C12_UnseenAgentGetsEntry

\* C13: after a token_update is folded the agent's tokenUsage is exactly the
\* three counts of the event (delta plays no part), and at any time an agent's
\* promptTokens and completionTokens are those of its latest token_update, zero
\* when it had none.
C13_TokenUpdateOverwrites ==
    /\ (/\ rlast.op = "processEvent"
         /\ WellFormed(rlast.event[1])
         /\ rlast.event[1].type = "token_update"
         /\ rlast.event[1].hasData)
            => LET e == rlast.event[1]
               IN /\ e.agentId \in DOMAIN activities
                  /\ heap[activities[e.agentId].tokenUsage] =
                         [promptTokens     |-> e.data.promptTokens,
                          completionTokens |-> e.data.completionTokens,
                          totalTokens      |-> e.data.totalTokens]
    /\ \A a \in DOMAIN activities :
           LET usage == heap[activities[a].tokenUsage]
           IN IF a \in DOMAIN rlast.lastTokens
              THEN /\ usage.promptTokens = rlast.lastTokens[a].promptTokens
                   /\ usage.completionTokens = rlast.lastTokens[a].completionTokens
              ELSE /\ usage.promptTokens = Some(0)
                   /\ usage.completionTokens = Some(0)

\* C13 witness: a token_update carrying a delta was folded for an agent whose
\* counts were other, non-zero ones.
C13_Witness ==
    /\ rlast.op = "processEvent"
    /\ rlast.event[1].type = "token_update"
    /\ rlast.event[1].data.delta # None
    /\ rlast.event[1].agentId \in DOMAIN rlast.snapshot
    /\ rlast.snapView[rlast.event[1].agentId].tokenUsage.promptTokens = Some(10)
    /\ heap[activities[rlast.event[1].agentId].tokenUsage].promptTokens = Some(100)

(***************************************************************************)
(* Claims about the validators.                                            *)
(***************************************************************************)
\* An event the specification calls foldable.
Foldable(e) ==
    /\ e.valueOf = "object"
    /\ e.typeOf = "string"
    /\ e.type \in {"agent_started", "agent_ended", "tool_called",
                    "model_switched", "token_update", "heartbeat"}
    /\ e.agentIdOf = "string"
    /\ e.agentId # ""
    /\ e.timestampOf = "number"

\* C19: isValidAgentEvent(e) is true exactly when e is a non-null object with a
\* type among the six kinds, a non-empty string agentId and a number timestamp;
\* every other value is rejected and not folded.
C19_ValidEventIffFoldable ==
    probe.fn = "isValidAgentEvent" =>
        /\ probe.verdict <=> Foldable(probe.input)
        /\ ~Foldable(probe.input) => ~probe.folded

\* A decoded frame the specification's validation gate lets through.
PassesGate(d) ==
    /\ d.valueOf = "object"
    /\ d.typeOf = "string"
    /\ d.type \in {"agent_event", "agent_activity", "heartbeat", "error"}
    /\ d.payloadOf \in {"object", "array"}

\* C20: isValidMessage(d) is true exactly when d is a non-null object whose
\* type is one of agent_event, agent_activity, heartbeat, error and whose
\* payload is a non-null value with typeof 'object' (an array included).
C20_ValidMessageIffGate ==
    probe.fn = "isValidMessage" => (probe.verdict <=> PassesGate(probe.input))

\* C20 witness: a message with an array payload was accepted.
C20_Witness ==
    /\ probe.fn = "isValidMessage"
    /\ probe.input.payloadOf = "array"
    /\ probe.verdict

(***************************************************************************)
(* Claims about send() and the frames that arrive.                         *)
(***************************************************************************)
\* The text the specification expects on the wire for a value given to send().
WireText(m) == IF m.typeOf = "string" THEN m.value ELSE "{\"type\":\"ping\"}"

\* C14: in both hooks send(m) transmits exactly one frame, on the socket the
\* hook currently holds, when that socket is OPEN: a string as it is, an
\* object as its JSON text.  Otherwise it transmits nothing, then or in a
\* later task, and in either case it leaves status, last error, event log
\* and lastMessage as they were.
C14_SendTransmitsIffOpen ==
    /\ vlast.op = "send" =>
           /\ vh.sent = IF vlast.pre = "OPEN"
                        THEN <<[sock |-> vlast.preRef, text |-> WireText(vlast.input[1])]>>
                        ELSE << >>
           /\ vlast.same
    /\ vlast.op # "send" => vh.sent = << >>
    /\ elast.op = "send" =>
           /\ eh.sent = IF elast.pre = "OPEN"
                        THEN <<[sock |-> elast.preRef, text |-> WireText(elast.input[1])]>>
                        ELSE << >>
           /\ elast.keptStatus
           /\ elast.keptLog
    /\ elast.op # "send" => eh.sent = << >>

\* C14 witness: send() was given an object while the hook's socket was OPEN.
C14_Witness ==
    /\ vlast.op = "send"
    /\ vlast.pre = "OPEN"
    /\ vlast.input[1].typeOf = "object"
    /\ Len(vh.sent) = 1

\* C15: in every hook variant a socket error event moves the connection
\* status to 'error' and records a last error, and by itself schedules no
\* reconnect timer.
C15_ErrorEventSetsStatusError ==
    /\ vlast.errored # << >> =>
           /\ vlast.errored[1].status = "error"
           /\ vlast.errored[1].error # "null"
           /\ ~vlast.errored[1].armed
    /\ elast.errored # << >> =>
           /\ elast.errored[1].status = "error"
           /\ elast.errored[1].error # "null"
           /\ ~elast.errored[1].armed

\* What does hold of an error event in both hooks: it records a last error
\* and schedules no timer; in the event-log hook it also sets status 'error'.
C15_ErrorEventRecordsError ==
    /\ vlast.errored # << >> =>
           /\ vlast.errored[1].error # "null"
           /\ ~vlast.errored[1].armed
    /\ elast.errored # << >> =>
           /\ elast.errored[1].status = "error"
           /\ elast.errored[1].error # "null"
           /\ ~elast.errored[1].armed

\* C16: in the event-log hook a received frame that is no valid JSON appends
\* exactly one synthetic event of type 'message' carrying the raw text to the
\* event log, which stays the last maxEvents arrivals, and leaves the
\* connection status and the last error as they were.
C16_RawFrameIsLogged ==
    (elast.op = "message" /\ ~elast.input[1].isJson) =>
        LET n == Len(eh.events)
            now == Len(arrivals)
        IN /\ n >= 1
           /\ eh.events[n] = [type |-> "message", payload |-> elast.input[1].text,
                              timestamp |-> now]
           /\ Cardinality({i \in 1..n : eh.events[i].timestamp = now}) = 1
           /\ n <= maxEvents
           /\ \A i \in 1..(n - 1) : eh.events[i] = arrivals[now - n + i]
           /\ n = Min(now, maxEvents)
           /\ elast.keptStatus

\* C16 witness: a frame that is no JSON arrived when the log was full and
\* the hook was connected.
C16_Witness ==
    /\ elast.op = "message"
    /\ ~elast.input[1].isJson
    /\ Len(arrivals) > maxEvents
    /\ eh.events[Len(eh.events)].payload = "not json"
    /\ eh.status = "connected"

\* A frame that decodes as JSON and that the validation gate of the
\* specification rejects.
FailsGate(frame) == frame.isJson /\ ~PassesGate(frame.data)

\* C17: in every hook variant a received frame that decodes as JSON but fails
\* the validation gate is dropped: it is not appended to the event log, it
\* does not replace lastMessage, and status and last error stay as they were.
C17_InvalidFrameIsDropped ==
    /\ (vlast.op = "message" /\ FailsGate(vlast.input[1])) => vlast.same
    /\ (elast.op = "message" /\ FailsGate(elast.input[1])) =>
           /\ elast.keptLog
           /\ elast.keptStatus

\* What does hold: the validated hook drops such a frame; the event-log hook
\* changes neither status nor last error on it.
C17_InvalidFrameIsDroppedByValidatedHook ==
    /\ (vlast.op = "message" /\ FailsGate(vlast.input[1])) => vlast.same
    /\ (elast.op = "message" /\ FailsGate(elast.input[1])) => elast.keptStatus

(***************************************************************************)
(* Claims about reconnect() of the event-log hook.                         *)
(***************************************************************************)
\* C18: reconnect() closes the existing socket as a manual close, whose close
\* callback schedules no automatic reconnect; it cancels any pending automatic
\* reconnect timer, empties the event log and resets the attempt counter to
\* 0; afterwards the log receives no event from a connection that existed
\* before the call.
C18_ReconnectStartsAfresh ==
    /\ elast.op = "reconnect" =>
           /\ \A s \in 1..Len(eh.socks) : eh.socks[s] \notin LiveStates
           /\ \A t \in eh.timers : t.kind # "auto"
           /\ eh.events = << >>
           /\ eh.reconnectAttemptsRef = 0
    /\ (elast.op = "close" /\ elast.sock \in ehist.byReconnect) => ~elast.armed
    /\ elast.op = "message" => elast.sock > ehist.before

\* What does hold of reconnect(): it empties the event log, resets the attempt
\* counter, leaves wsRef null and the timer reconnectTimeoutRef held cancelled.
C18_ReconnectEmptiesLog ==
    elast.op = "reconnect" =>
        /\ eh.events = << >>
        /\ eh.reconnectAttemptsRef = 0
        /\ eh.wsRef = Null
        /\ eh.reconnectTimeoutRef = Null

(***************************************************************************)
(* Claims about the fields of an activity.                                 *)
(***************************************************************************)
\* C21: after folding any sequence of valid events, currentModel of an agent
\* is the value set by the latest model_switched (data.newModel) or
\* agent_started carrying data.model, undefined when there was none; the
\* life agent_started(gpt-4), tool_called(read), model_switched(gpt-4-turbo),
\* agent_ended(completed) ends with status 'ended', currentModel
\* 'gpt-4-turbo', toolsUsed = [read] and endedAt the last event's timestamp,
\* folded as a batch or one by one.
C21_CurrentModelLastWriterWins ==
    /\ \A a \in DOMAIN activities :
           activities[a].currentModel =
               IF a \in DOMAIN rlast.lastModel THEN rlast.lastModel[a] ELSE None
    /\ rlast.lifecycle =>
           \A seen \in {rlast.result, rlast.oneByOne} :
               /\ ~seen.threw
               /\ seen.view["a1"].status = Some("ended")
               /\ seen.view["a1"].currentModel = Some("gpt-4-turbo")
               /\ Len(seen.view["a1"].toolsUsed) = 1
               /\ seen.view["a1"].toolsUsed[1].toolName = Some("read")
               /\ seen.view["a1"].endedAt = Some(4)

\* C21 witness: an agent started with one model was switched to another.
C21_Witness ==
    /\ rlast.op = "processEvent"
    /\ rlast.event[1].type = "model_switched"
    /\ rlast.event[1].agentId \in DOMAIN rlast.snapshot
    /\ rlast.snapView[rlast.event[1].agentId].currentModel = Some("gpt-4")
    /\ activities[rlast.event[1].agentId].currentModel = Some("gpt-4-turbo")

\* C23: after a valid event e of any kind was folded for agent e.agentId,
\* whether the agent had an entry or this fold created it (a first
\* agent_started included), the entry's lastActivity is e.timestamp.
C23_LastActivityIsEventTimestamp ==
    (/\ rlast.op = "processEvent"
     /\ WellFormed(rlast.event[1])
     /\ ~rlast.result.threw) =>
        /\ rlast.event[1].agentId \in DOMAIN activities
        /\ activities[rlast.event[1].agentId].lastActivity = rlast.event[1].timestamp

\* What does hold: lastActivity is the event's timestamp in every fold but
\* the agent_started that creates the entry.
C23_LastActivityUnlessCreatedByStart ==
    (/\ rlast.op = "processEvent"
     /\ WellFormed(rlast.event[1])
     /\ ~rlast.result.threw
     /\ ~(rlast.event[1].type = "agent_started"
          /\ rlast.event[1].agentId \notin DOMAIN rlast.snapshot)) =>
        /\ rlast.event[1].agentId \in DOMAIN activities
        /\ activities[rlast.event[1].agentId].lastActivity = rlast.event[1].timestamp

\* The status values of an AgentActivity.
AgentStatus == {"active", "idle", "error", "ended"}

\* C24: in every reachable store the status of every entry is one of active,
\* idle, error, ended: a heartbeat sets status to data.status only when that
\* value is a recognized status.
C24_StatusIsRecognized ==
    \A a \in DOMAIN activities :
        /\ activities[a].status # None
        /\ activities[a].status[1] \in AgentStatus

\* What does hold: a status outside the four values can only come from a
\* heartbeat that carried it.
C24_StatusIsRecognizedOrFromHeartbeat ==
    \A a \in DOMAIN activities :
        \/ /\ activities[a].status # None
           /\ activities[a].status[1] \in AgentStatus
        \/ \E e \in Events : e.type = "heartbeat" /\ e.agentId = a /\ e.hasData
                             /\ e.data.status = activities[a].status

\* C30: an entry whose status is 'ended' has endedAt set, to the timestamp of
\* the agent_ended that ended it; an entry that was never ended has endedAt
\* unset; no event other than agent_ended moves an entry to 'ended'.
C30_EndedHasEndedAt ==
    /\ \A a \in DOMAIN activities :
           /\ activities[a].status = Some("ended") =>
                  /\ a \in DOMAIN rlast.lastEnd
                  /\ activities[a].endedAt = Some(rlast.lastEnd[a])
           /\ a \notin DOMAIN rlast.lastEnd => activities[a].endedAt = None
    /\ (/\ rlast.op = "processEvent"
        /\ WellFormed(rlast.event[1])
        /\ rlast.event[1].type # "agent_ended"
        /\ rlast.event[1].agentId \in DOMAIN activities
        /\ activities[rlast.event[1].agentId].status = Some("ended")) =>
           /\ rlast.event[1].agentId \in DOMAIN rlast.snapshot
           /\ rlast.snapshot[rlast.event[1].agentId].status = Some("ended")

\* What does hold: an entry that was never ended has endedAt unset, endedAt is
\* always the timestamp of the latest agent_ended, and only an agent_ended or
\* a heartbeat carrying status 'ended' moves an entry to 'ended'.
C30_EndedAtIsLatestEnd ==
    /\ \A a \in DOMAIN activities :
           activities[a].endedAt =
               IF a \in DOMAIN rlast.lastEnd THEN Some(rlast.lastEnd[a]) ELSE None
    /\ (/\ rlast.op = "processEvent"
        /\ WellFormed(rlast.event[1])
        /\ rlast.event[1].type \notin {"agent_ended", "heartbeat"}
        /\ rlast.event[1].agentId \in DOMAIN activities
        /\ activities[rlast.event[1].agentId].status = Some("ended")) =>
           /\ rlast.event[1].agentId \in DOMAIN rlast.snapshot
           /\ rlast.snapshot[rlast.event[1].agentId].status = Some("ended")

(***************************************************************************)
(* Claims about timers, status and unmount of the hooks.                   *)
(***************************************************************************)
\* C26: in the validated hook at most one reconnect timer is pending at any
\* time and reconnectTimerRef refers to it, so connect() and disconnect()
\* cancel every pending reconnect: no timer survives a disconnect().
C26_OneReconnectTimer ==
    /\ Cardinality(vh.timers) <= 1
    /\ \A t \in vh.timers : t.id = vh.reconnectTimerRef
    /\ vlast.op = "disconnect" => vh.timers = {}

\* The status a hook reports agrees with the socket it holds: 'connected' only
\* while wsRef holds a socket that is OPEN (or OPEN until the peer started the
\* closing handshake), and always while wsRef holds an OPEN socket.
StatusAgrees(status, wsRef, socks) ==
    /\ status = "connected" => (wsRef # Null /\ socks[wsRef] \in {"OPEN", "CLOSING"})
    /\ (wsRef # Null /\ socks[wsRef] = "OPEN") => status = "connected"

\* C25: in both hooks the reported status agrees with the socket the hook
\* holds, and the late close callback of a replaced socket neither clears the
\* reference nor sets status 'disconnected' while a newer socket is live.
C25_StatusAgreesWithSocket ==
    /\ StatusAgrees(vh.status, vh.wsRef, vh.socks)
    /\ StatusAgrees(eh.status, eh.wsRef, eh.socks)
    /\ (vlast.op = "close" /\ vlast.preRef # Null /\ vlast.sock # vlast.preRef
        /\ vh.socks[vlast.preRef] \in LiveStates) => vh.wsRef = vlast.preRef

\* C29: every successful open resets the attempt counter to 0, so the first
\* automatic reconnect after an open, the one scheduled when the socket the
\* hook holds closes after it had opened, uses the initial delay and never
\* reports the attempt ceiling.
C29_OpenResetsBackoff ==
    /\ vlast.op = "open" => vh.reconnectAttemptsRef = 0
    /\ elast.op = "open" => eh.reconnectAttemptsRef = 0
    /\ (/\ vlast.op = "close"
        /\ vlast.sock = vlast.preRef
        /\ vlast.sock \in vh.established) =>
           /\ Delays(vh.console) \in {<< >>, <<DEFAULT_RECONNECT_INTERVAL>>}
           /\ ~HitCeiling(vh.console)
    /\ (/\ elast.op = "close"
        /\ elast.sock = elast.preRef
        /\ elast.sock \in eh.established
        /\ elast.armed) =>
           \A t \in eh.timers :
               t.id = eh.reconnectTimeoutRef => t.delay = initialReconnectDelay

\* The event-log hook's half of C29: it holds for the event-log hook.
C29_OpenResetsBackoffE ==
    /\ elast.op = "open" => eh.reconnectAttemptsRef = 0
    /\ (/\ elast.op = "close"
        /\ elast.sock = elast.preRef
        /\ elast.sock \in eh.established
        /\ elast.armed) =>
           \A t \in eh.timers :
               t.id = eh.reconnectTimeoutRef => t.delay = initialReconnectDelay

\* C22: in the event-log hook with autoReconnect enabled, every close of the
\* socket the hook holds that reconnect() did not cause schedules a reconnect
\* timer, also when the socket follows one that reconnect() replaced.
C22_UnexpectedCloseReconnects ==
    (/\ elast.op = "close"
     /\ eh.autoReconnect
     /\ elast.sock = elast.preRef
     /\ elast.sock \notin ehist.byReconnect) => elast.armed

\* C27: in both hooks, once the unmount cleanup has run, no new socket is
\* opened and no reconnect timer is pending or gets scheduled.
C27_NothingAfterUnmount ==
    /\ vh.unmounted => (vh.timers = {} /\ vlast.opened = 0)
    /\ eh.unmounted => (eh.timers = {} /\ elast.opened = 0)

(***************************************************************************)
(* Claims about the App.                                                   *)
(***************************************************************************)
\* C28: every valid agent_event envelope received on the socket is handed to
\* processEvent exactly once and in transport order, also when several frames
\* arrive before the next render: once the effect has run on the latest
\* lastMessage, the payloads folded are the payloads received.
C28_EveryEnvelopeIsFolded ==
    ~app.dirty => app.folded = app.received

\* What does hold: the effect folds a payload at most once, in transport
\* order; payloads are lost, never repeated or reordered.
C28_FoldedIsSubsequence ==
    \E keep \in SUBSET (1..Len(app.received)) :
        LET RECURSIVE Pick(_)
            Pick(i) == IF i > Len(app.received) THEN << >>
                       ELSE IF i \in keep THEN <<app.received[i]>> \o Pick(i + 1)
                       ELSE Pick(i + 1)
        IN app.folded = Pick(1)

====
